---------------------------- MODULE Spec2Model ----------------------------
(***************************************************************************)
(* Comfig: a configuration store (ordered sections of comment + key/value  *)
(* data, with a key -> section-position index), its line parser and its    *)
(* serializer.  Every operation of class Comfig is an operator from the    *)
(* store (tree, index) and the call's arguments to the store afterwards    *)
(* and the value returned; the actions apply these operators.              *)
(*                                                                         *)
(* Strings are sequences of one-character strings, so that split, trim,    *)
(* the regular expressions and the formatting are computed, not assumed.   *)
(* Section positions are 0-based as in the source: position i is tree[i+1].*)
(***************************************************************************)
EXTENDS Integers, Sequences, FiniteSets, TLC

VARIABLES tree, index, opts, file, pc

vars == <<tree, index, opts, file, pc>>

\* ------------------------------------------------------------------ bounds

\* Most sections a store of the model holds.
MaxSections == 3

\* Most asynchronous saves whose write is still outstanding.
MaxPending == 1

\* Most lines of a text given to the parser.
MaxLines == 4

\* ------------------------------------------------------------- characters

Digits == <<"0", "1", "2", "3", "4", "5", "6", "7", "8", "9">>

DigitChars == {Digits[i] : i \in 1..10}

LetterChars ==
    {"a", "b", "c", "d", "e", "f", "g", "h", "i", "j", "k", "l", "m",
     "n", "o", "p", "q", "r", "s", "t", "u", "v", "w", "x", "y", "z",
     "A", "B", "C", "D", "E", "F", "G", "H", "I", "J", "K", "L", "M",
     "N", "O", "P", "Q", "R", "S", "T", "U", "V", "W", "X", "Y", "Z"}

\* \w of a JavaScript regular expression
IsWordChar(c) == c \in LetterChars \cup DigitChars \cup {"_"}

\* [\w_-] : a character of a key name
IsKeyChar(c) == IsWordChar(c) \/ c \in {"_", "-"}

\* \s of a regular expression, and what String.trim removes
IsSpace(c) == c \in {" ", "\t", "\r", "\f", "\n"}

DigitValue(c) == (CHOOSE i \in 1..10 : Digits[i] = c) - 1

\* ---------------------------------------------------------------- strings

RECURSIVE IndexOfFrom(_, _, _)
\* position of the first c in s at or after i, 0 when there is none
IndexOfFrom(s, c, i) ==
    IF i > Len(s) THEN 0
    ELSE IF s[i] = c THEN i
    ELSE IndexOfFrom(s, c, i + 1)

\* String.prototype.includes for a one-character needle
Includes(s, c) == IndexOfFrom(s, c, 1) # 0

RECURSIVE split(_, _)
\* String.prototype.split(c): the pieces of s between occurrences of c
split(s, c) ==
    LET i == IndexOfFrom(s, c, 1)
    IN IF i = 0 THEN <<s>>
       ELSE <<SubSeq(s, 1, i - 1)>> \o split(SubSeq(s, i + 1, Len(s)), c)

RECURSIVE join(_, _)
\* Array.prototype.join(sep) of a sequence of strings
join(parts, sep) ==
    IF Len(parts) = 0 THEN <<>>
    ELSE IF Len(parts) = 1 THEN parts[1]
    ELSE parts[1] \o sep \o join(Tail(parts), sep)

RECURSIVE trimStart(_)
trimStart(s) ==
    IF Len(s) > 0 /\ IsSpace(s[1]) THEN trimStart(Tail(s)) ELSE s

RECURSIVE trimEnd(_)
trimEnd(s) ==
    IF Len(s) > 0 /\ IsSpace(s[Len(s)]) THEN trimEnd(SubSeq(s, 1, Len(s) - 1))
    ELSE s

\* String.prototype.trim
trim(s) == trimEnd(trimStart(s))

\* String.prototype.endsWith
endsWith(s, suffix) ==
    /\ Len(s) >= Len(suffix)
    /\ SubSeq(s, Len(s) - Len(suffix) + 1, Len(s)) = suffix

AllDigits(s) == Len(s) > 0 /\ \A i \in 1..Len(s) : s[i] \in DigitChars

RECURSIVE digitsValue(_)
\* the number a string of decimal digits denotes
digitsValue(s) ==
    IF Len(s) = 0 THEN 0
    ELSE 10 * digitsValue(SubSeq(s, 1, Len(s) - 1)) + DigitValue(s[Len(s)])

RECURSIVE natToString(_)
\* the decimal digits of a natural number
natToString(n) ==
    IF n < 10 THEN <<Digits[n + 1]>>
    ELSE natToString(n \div 10) \o <<Digits[(n % 10) + 1]>>

\* ------------------------------------------------------ JavaScript values

Undefined == [t |-> "undefined"]
Null == [t |-> "null"]
NaN == [t |-> "nan"]
Bool(b) == [t |-> "bool", b |-> b]
\* a number: sign, integer part, and the digits after the decimal point
\* (none for an integer, never ending in 0)
Number(neg, int, frac) == [t |-> "num", neg |-> neg, int |-> int, frac |-> frac]
Integer(n) == IF n < 0 THEN Number(TRUE, 0 - n, <<>>) ELSE Number(FALSE, n, <<>>)
Str(s) == [t |-> "str", s |-> s]
\* an array: its elements, and the non-index properties put on it
Arr(e) == [t |-> "arr", e |-> e, x |-> <<>>]
\* an object: its properties in enumeration order
Obj(p) == [t |-> "obj", p |-> p]
\* the failure value {error: msg} the store returns
ErrObj(msg) == [t |-> "errobj", error |-> msg]
\* the outcome of a call that raised
Throw(what) == [t |-> "throw", what |-> what]

IsUndefined(v) == v.t = "undefined"
IsObjectType(v) == v.t \in {"arr", "obj"}
IsFailure(v) == v.t = "errobj"
IsThrow(v) == v.t = "throw"

\* JavaScript truthiness
Truthy(v) ==
    CASE v.t \in {"undefined", "null", "nan"} -> FALSE
      [] v.t = "bool" -> v.b
      [] v.t = "num" -> ~(v.int = 0 /\ v.frac = <<>>)
      [] v.t = "str" -> v.s # <<>>
      [] OTHER -> TRUE

\* a canonical array index: "0", or digits with no leading zero
IsArrayIndex(k) == AllDigits(k) /\ (Len(k) = 1 \/ k[1] # "0")

\* ------------------------------------- objects as ordered property lists

HasProp(p, k) == \E i \in 1..Len(p) : p[i].k = k

PropPos(p, k) == CHOOSE i \in 1..Len(p) : p[i].k = k

\* obj[k]
GetProp(p, k) == IF HasProp(p, k) THEN p[PropPos(p, k)].v ELSE Undefined

\* Object.keys(obj)
ObjectKeys(p) == [i \in 1..Len(p) |-> p[i].k]

\* where a new property k goes: integer-like names come first, ascending,
\* all others follow in insertion order
InsertPos(p, k) ==
    IF IsArrayIndex(k)
    THEN Cardinality({i \in 1..Len(p) :
            IsArrayIndex(p[i].k) /\ digitsValue(p[i].k) < digitsValue(k)}) + 1
    ELSE Len(p) + 1

\* obj[k] = v
SetProp(p, k, v) ==
    IF HasProp(p, k) THEN [p EXCEPT ![PropPos(p, k)].v = v]
    ELSE LET at == InsertPos(p, k)
         IN SubSeq(p, 1, at - 1) \o <<[k |-> k, v |-> v]>> \o SubSeq(p, at, Len(p))

\* delete obj[k]
DelProp(p, k) == SelectSeq(p, LAMBDA e : e.k # k)

\* Array.prototype.includes
SeqIncludes(s, x) == \E i \in 1..Len(s) : s[i] = x

\* Array.prototype.splice(at, 1) and splice(at, 0, x), at 0-based
RemoveAt(s, at) ==
    IF at < Len(s) THEN SubSeq(s, 1, at) \o SubSeq(s, at + 2, Len(s)) ELSE s

\* an insertion that ignores the position
InsertLast(s, at, x) == Append(s, x)

InsertAt(s, at, x) == SubSeq(s, 1, at) \o <<x>> \o SubSeq(s, at + 1, Len(s))

\* ------------------------------------------------------------- the store

\* what an operation leaves: the store afterwards and the value returned
Res(t, ix, r) == [tree |-> t, index |-> ix, ret |-> r]

Section(comment, data) == [comment |-> comment, data |-> data]

\* index[key] = n  and  delete index[key]
IndexSet(ix, key, n) ==
    [k \in DOMAIN ix \cup {key} |-> IF k = key THEN n ELSE ix[k]]

IndexDel(ix, key) == [k \in DOMAIN ix \ {key} |-> ix[k]]

EmptyIndex == [k \in {} |-> 0]

\* const [key, subkey] = dotKey.split('.')
pathKey(dotKey) == split(dotKey, ".")[1]

pathSubkey(dotKey) ==
    LET parts == split(dotKey, ".")
    IN IF Len(parts) >= 2 THEN Str(parts[2]) ELSE Undefined

\* the keys of every section's data
TreeKeys(t) == UNION {{t[i].data[j].k : j \in 1..Len(t[i].data)} : i \in 1..Len(t)}

MaxOf(S) == CHOOSE x \in S : \A y \in S : y <= x

\* _rebuildIndex: a full rescan; the last section holding a key wins
rebuildIndex(t) ==
    [k \in TreeKeys(t) |->
        MaxOf({i - 1 : i \in {j \in 1..Len(t) : HasProp(t[j].data, k)}})]

RECURSIVE getKeys(_)
\* getKeys: all top level keys, in tree order
getKeys(t) ==
    IF Len(t) = 0 THEN <<>>
    ELSE ObjectKeys(t[1].data) \o getKeys(Tail(t))

getSectionId(ix, key) == IF key \in DOMAIN ix THEN Integer(ix[key]) ELSE Undefined

\* a formatter that leaves the marker out
formatUnmarked(comment) ==
    IF ~Truthy(comment) THEN Str(<<>>)
    ELSE IF comment.t = "str" THEN Str(comment.s \o <<"\n">>)
    ELSE Undefined

\* _formatComment: every line prefixed with the configured marker and a
\* space, the whole terminated by a line break
formatComment(comment) ==
    IF ~Truthy(comment) THEN Str(<<>>)
    ELSE IF comment.t = "str"
    THEN LET lines == split(comment.s, "\n")
             marked == [i \in 1..Len(lines) |-> opts.comment \o <<" ">> \o lines[i]]
         IN Str(join(marked, <<"\n">>) \o <<"\n">>)
    ELSE Undefined

\* faulty variant: only objects and arrays are refused, multi-line strings pass
validateObjectsOnly(value) ==
    IF IsObjectType(value) THEN ErrObj("invalid object value") ELSE Undefined

\* _validateSubkeyValue: the failure value for an object, an array or a
\* string with a line break; undefined for a primitive
validateSubkeyValue(value) ==
    IF \/ IsObjectType(value)
       \/ (value.t = "str" /\ Includes(value.s, "\n"))
    THEN ErrObj("invalid object value")
    ELSE Undefined

\* arr[i] = v, i 0-based: elements skipped over are holes, read as undefined
SetElem(e, i, v) ==
    [j \in 1..(IF i + 1 > Len(e) THEN i + 1 ELSE Len(e)) |->
        IF j = i + 1 THEN v ELSE IF j <= Len(e) THEN e[j] ELSE Undefined]

\* item[subkey] = value in strict mode: a property of an object, an element
\* or a property of an array, a TypeError on anything else
AssignSub(item, sk, v) ==
    CASE item.t = "obj" -> Obj(SetProp(item.p, sk, v))
      [] item.t = "arr" ->
            IF IsArrayIndex(sk)
            THEN [item EXCEPT !.e = SetElem(item.e, digitsValue(sk), v)]
            ELSE [item EXCEPT !.x = SetProp(item.x, sk, v)]
      [] OTHER -> Throw("TypeError")

\* item[subkey]
ReadSub(item, sk) ==
    CASE item.t = "obj" -> GetProp(item.p, sk)
      [] item.t = "arr" ->
            IF IsArrayIndex(sk)
            THEN IF digitsValue(sk) < Len(item.e) THEN item.e[digitsValue(sk) + 1]
                 ELSE Undefined
            ELSE GetProp(item.x, sk)
      [] item.t = "str" ->
            IF IsArrayIndex(sk) /\ digitsValue(sk) < Len(item.s)
            THEN Str(<<item.s[digitsValue(sk) + 1]>>)
            ELSE Undefined
      [] item.t \in {"undefined", "null"} -> Throw("TypeError")
      [] OTHER -> Undefined

\* get(dotKey, dflt)
get(t, ix, dotKey, dflt) ==
    LET key == pathKey(dotKey)
        subkey == pathSubkey(dotKey)
    IN IF key \notin DOMAIN ix THEN dflt
       ELSE IF ix[key] >= Len(t) THEN Throw("TypeError")
       ELSE LET item == GetProp(t[ix[key] + 1].data, key)
            IN IF Truthy(subkey)
               THEN LET v == ReadSub(item, subkey.s)
                    IN IF IsUndefined(v) THEN dflt ELSE v
               ELSE item

\* hasKey(dotKey)
hasKey(t, ix, dotKey) ==
    LET v == get(t, ix, dotKey, Undefined)
    IN IF IsThrow(v) THEN v ELSE Bool(Truthy(v))

\* faulty variant: creation is always allowed
creationAlways(o) == TRUE

\* if(!opts.create) return {error}
creationAllowed(o) == o.create

\* faulty variant: the new section goes to the front
pushFront(t, s) == <<s>> \o t

\* this.tree.push(section)
push(t, s) == Append(t, s)

\* set(dotKey, value, opts), opts = {create, comment}
set(t, ix, dotKey, value, o) ==
    LET key == pathKey(dotKey)
        subkey == pathSubkey(dotKey)
        invalid == validateSubkeyValue(value)
    IN IF key \notin DOMAIN ix
       THEN IF ~creationAllowed(o)
            THEN Res(t, ix, ErrObj("config option does not exist"))
            ELSE IF Truthy(subkey) /\ IsFailure(invalid)
            THEN Res(t, ix, invalid)
            ELSE LET stored == IF Truthy(subkey)
                               THEN Obj(<<[k |-> subkey.s, v |-> value]>>)
                               ELSE value
                     t2 == push(t, Section(formatComment(o.comment),
                                           <<[k |-> key, v |-> stored]>>))
                 IN Res(t2, IndexSet(ix, key, Len(t2) - 1), Integer(Len(t2) - 1))
       ELSE LET idx == ix[key]
            IN IF Truthy(subkey) /\ IsFailure(invalid)
               THEN Res(t, ix, invalid)
               ELSE IF idx >= Len(t)
               THEN Res(t, ix, Throw("TypeError"))
               ELSE IF Truthy(subkey)
               THEN LET item == GetProp(t[idx + 1].data, key)
                        item2 == AssignSub(item, subkey.s, value)
                    IN IF IsThrow(item2) THEN Res(t, ix, item2)
                       ELSE Res([t EXCEPT ![idx + 1].data = SetProp(@, key, item2)],
                                ix, Integer(idx))
               ELSE Res([t EXCEPT ![idx + 1].data = SetProp(@, key, value)],
                        ix, Integer(idx))

\* a splice that always starts at the first element
spliceFirst(sk) == 0

\* Array.prototype.splice(start, 1) with the start given as a string
spliceStart(sk) == IF AllDigits(sk) THEN digitsValue(sk) ELSE 0

\* delete(dotKey, removeComment)
delete(t, ix, dotKey, removeComment) ==
    LET key == pathKey(dotKey)
        subkey == pathSubkey(dotKey)
    IN IF key \notin DOMAIN ix THEN Res(t, ix, Bool(FALSE))
       ELSE IF ix[key] >= Len(t) THEN Res(t, ix, Throw("TypeError"))
       ELSE LET idx == ix[key]
                item == GetProp(t[idx + 1].data, key)
            IN IF Truthy(subkey)
               THEN CASE item.t = "arr" ->
                            Res([t EXCEPT ![idx + 1].data = SetProp(@, key,
                                    [item EXCEPT !.e = RemoveAt(@, spliceStart(subkey.s))])],
                                ix, Bool(TRUE))
                      [] item.t = "obj" ->
                            Res([t EXCEPT ![idx + 1].data = SetProp(@, key,
                                    Obj(DelProp(item.p, subkey.s)))],
                                ix, Bool(TRUE))
                      [] OTHER -> Res(t, ix, ErrObj("not an object/array"))
               ELSE LET t2 == [t EXCEPT ![idx + 1].data = DelProp(@, key)]
                        ix2 == IndexDel(ix, key)
                    IN IF Len(t2[idx + 1].data) > 0
                       THEN Res(t2, ix2, Bool(TRUE))
                       ELSE IF Truthy(t2[idx + 1].comment) /\ ~removeComment
                       THEN Res(t2, ix2, Bool(TRUE))
                       ELSE LET t3 == RemoveAt(t2, idx)
                            IN Res(t3, rebuildIndex(t3), Bool(TRUE))

\* ---------------------------------------------------------------- comments

\* the text a value contributes to a string concatenation
concatText(v) ==
    CASE v.t = "str" -> v.s
      [] v.t = "undefined" -> <<"u", "n", "d", "e", "f", "i", "n", "e", "d">>
      [] v.t = "null" -> <<"n", "u", "l", "l">>
      [] OTHER -> <<"N", "a", "N">>

\* a + b where neither is an object: text as soon as one side is a string
jsAdd(a, b) ==
    IF a.t = "str" \/ b.t = "str" THEN Str(concatText(a) \o concatText(b))
    ELSE NaN

\* _setComment(idx, comment, opts), opts = {add, raw}
setCommentAt(t, ix, idx, comment, o) ==
    LET c == IF o.raw
             THEN IF comment.t # "str" THEN Throw("TypeError")
                  ELSE IF endsWith(comment.s, <<"\n">>) THEN comment
                  ELSE Str(comment.s \o <<"\n">>)
             ELSE formatComment(comment)
    IN IF IsThrow(c) THEN Res(t, ix, c)
       ELSE Res([t EXCEPT ![idx + 1].comment = IF o.add THEN jsAdd(@, c) ELSE c],
                ix, Undefined)

\* setKeyComment(key, comment, opts)
setKeyComment(t, ix, key, comment, o) ==
    IF key \notin DOMAIN ix
    THEN Res(t, ix, ErrObj("config option does not exist"))
    ELSE IF ix[key] >= Len(t) THEN Res(t, ix, Throw("TypeError"))
    ELSE setCommentAt(t, ix, ix[key], comment, o)

\* this.tree[idx] !== undefined, for an integer idx
validSection(t, idx) == 0 <= idx /\ idx < Len(t)

\* setSectionComment(idx, comment, opts)
setSectionComment(t, ix, idx, comment, o) ==
    IF ~validSection(t, idx) THEN Res(t, ix, ErrObj("invalid section id"))
    ELSE setCommentAt(t, ix, idx, comment, o)

\* setComment(entityId, comment, opts): entityId an integer or a key name
setComment(t, ix, entityId, comment, o) ==
    IF entityId.t = "num" /\ entityId.frac = <<>>
    THEN setSectionComment(t, ix,
            IF entityId.neg THEN 0 - entityId.int ELSE entityId.int, comment, o)
    ELSE IF entityId.t = "str"
    THEN setKeyComment(t, ix, entityId.s, comment, o)
    ELSE Res(t, ix, ErrObj("invalid entity id"))

\* deleteComment(entityId)
deleteComment(t, ix, entityId) ==
    setComment(t, ix, entityId, Null, [add |-> FALSE, raw |-> FALSE])

\* getSectionComment(idx, raw = true) and getKeyComment(key, raw = true)
getSectionComment(t, idx) ==
    IF validSection(t, idx) THEN t[idx + 1].comment
    ELSE ErrObj("invalid section id")

getKeyComment(t, ix, key) ==
    IF key \notin DOMAIN ix THEN ErrObj("config option does not exist")
    ELSE IF ix[key] >= Len(t) THEN Throw("TypeError")
    ELSE t[ix[key] + 1].comment

\* ---------------------------------------------------------------- sections

\* if(this.index[key]) return {error}: the test is on the truthiness of the
\* position, and position 0 is falsy
keyIndexed(ix, key) == key \in DOMAIN ix /\ ix[key] # 0

\* addSectionKey(idx, key, value)
addSectionKey(t, ix, idx, key, value) ==
    IF ~validSection(t, idx) THEN Res(t, ix, ErrObj("invalid section id"))
    ELSE IF keyIndexed(ix, key) THEN Res(t, ix, ErrObj("key already exist"))
    ELSE Res([t EXCEPT ![idx + 1].data = SetProp(@, key, value)],
             IndexSet(ix, key, idx), Undefined)

\* addSection(opts), opts = {id?, key?, value?, comment?}; has* tell which
\* of them the caller's object holds
addSection(t, ix, o) ==
    LET keyGiven == Truthy(o.key)
        data == IF keyGiven THEN <<[k |-> o.key.s, v |-> o.value]>> ELSE <<>>
        section == Section(formatComment(o.comment), data)
    IN IF ~o.hasId /\ ~o.hasKey /\ ~o.hasValue /\ ~o.hasComment
       THEN Res(t, ix, ErrObj("no params supplied"))
       ELSE IF (keyGiven \/ o.hasValue) /\ (~keyGiven \/ ~o.hasValue)
       THEN Res(t, ix, ErrObj("when setting key, both key and value are required"))
       ELSE IF keyGiven /\ o.key.s \in DOMAIN ix
       THEN Res(t, ix, ErrObj("key already exist"))
       ELSE IF o.hasId
       THEN IF ~keyGiven /\ ~Truthy(o.comment)
            THEN Res(t, ix, ErrObj("no data"))
            ELSE IF ~validSection(t, o.id)
            THEN Res(t, ix, ErrObj("invalid section id"))
            ELSE LET t2 == InsertAt(t, o.id, section)
                 IN Res(t2, rebuildIndex(t2), Integer(o.id))
       ELSE LET t2 == push(t, section)
            IN Res(t2, rebuildIndex(t2), Integer(Len(t2) - 1))

\* moveSection(idxFrom, idxTo)
moveSection(t, ix, idxFrom, idxTo) ==
    IF ~validSection(t, idxFrom) \/ ~validSection(t, idxTo)
    THEN Res(t, ix, ErrObj("invalid section id"))
    ELSE LET section == t[idxFrom + 1]
             t2 == RemoveAt(t, idxFrom)
             to == IF idxFrom < idxTo THEN idxTo - 1 ELSE idxTo
             t3 == InsertAt(t2, to, section)
         IN Res(t3, rebuildIndex(t3), Undefined)

\* _commonArrays(arr1, arr2)
commonArrays(arr1, arr2) ==
    Len(SelectSeq(arr1, LAMBDA item : SeqIncludes(arr2, item))) = Len(arr2)

RECURSIVE pickInOrder(_, _, _)
\* for(const key of newOrder) data[key] = old[key]
pickInOrder(old, newOrder, data) ==
    IF Len(newOrder) = 0 THEN data
    ELSE pickInOrder(old, Tail(newOrder),
                     SetProp(data, Head(newOrder), GetProp(old, Head(newOrder))))

\* reorderSection(idx, newOrder)
reorderSection(t, ix, idx, newOrder) ==
    IF ~validSection(t, idx) THEN Res(t, ix, ErrObj("invalid section id"))
    ELSE IF ~commonArrays(ObjectKeys(t[idx + 1].data), newOrder)
    THEN Res(t, ix, ErrObj("invalid new order array"))
    ELSE Res([t EXCEPT ![idx + 1].data = pickInOrder(@, newOrder, <<>>)],
             ix, Undefined)

\* deleteSection(idx)
deleteSection(t, ix, idx) ==
    IF ~validSection(t, idx) THEN Res(t, ix, ErrObj("invalid section id"))
    ELSE LET t2 == RemoveAt(t, idx)
         IN Res(t2, rebuildIndex(t2), Undefined)

\* -------------------------------------------------------------------- sync

\* the enumerable own properties of a value, in enumeration order
ownEntries(obj) ==
    CASE obj.t = "obj" -> obj.p
      [] obj.t = "arr" ->
            [i \in 1..Len(obj.e) |-> [k |-> natToString(i - 1), v |-> obj.e[i]]]
            \o obj.x
      [] OTHER -> <<>>

\* key[0] != '$'
notReserved(key) == Len(key) = 0 \/ key[1] # "$"

\* Object.keys(obj).filter(key => key[0] != '$')
syncKeys(obj) == SelectSeq(ObjectKeys(ownEntries(obj)), notReserved)

RECURSIVE syncUpdate(_, _, _)
\* the update branch: for(const key in obj), overwrite what the index knows
syncUpdate(t, ix, entries) ==
    IF Len(entries) = 0 THEN Res(t, ix, Undefined)
    ELSE LET e == Head(entries)
         IN IF e.k \notin DOMAIN ix THEN syncUpdate(t, ix, Tail(entries))
            ELSE IF ix[e.k] >= Len(t) THEN Res(t, ix, Throw("TypeError"))
            ELSE syncUpdate([t EXCEPT ![ix[e.k] + 1].data = SetProp(@, e.k, e.v)],
                            ix, Tail(entries))

RECURSIVE syncMerge(_, _, _, _)
\* _sync__merge(mergeKeys, obj): overwrite what the index knows, append a
\* section with no comment for every other key; the index is not touched
syncMerge(t, ix, mergeKeys, entries) ==
    IF Len(mergeKeys) = 0 THEN Res(t, ix, Undefined)
    ELSE LET key == Head(mergeKeys)
             value == GetProp(entries, key)
         IN IF key \in DOMAIN ix
            THEN IF ix[key] >= Len(t) THEN Res(t, ix, Throw("TypeError"))
                 ELSE syncMerge([t EXCEPT ![ix[key] + 1].data = SetProp(@, key, value)],
                                ix, Tail(mergeKeys), entries)
            ELSE syncMerge(push(t, Section(Str(<<>>), <<[k |-> key, v |-> value]>>)),
                           ix, Tail(mergeKeys), entries)

RECURSIVE syncDelete(_, _, _, _)
\* the mirror loop: delete(localKey, true) for every local key the object
\* does not hold
syncDelete(t, ix, localKeys, objKeys) ==
    IF Len(localKeys) = 0 THEN Res(t, ix, Undefined)
    ELSE IF SeqIncludes(objKeys, Head(localKeys))
    THEN syncDelete(t, ix, Tail(localKeys), objKeys)
    ELSE LET r == delete(t, ix, Head(localKeys), TRUE)
         IN IF IsThrow(r.ret) THEN r
            ELSE syncDelete(r.tree, r.index, Tail(localKeys), objKeys)

\* sync(obj, opts), opts = {update, merge, mirror}
sync(t, ix, obj, o) ==
    IF ~IsObjectType(obj) THEN Res(t, ix, ErrObj("sync requires an object"))
    ELSE LET objKeys == syncKeys(obj)
             r == IF o.update THEN syncUpdate(t, ix, ownEntries(obj))
                  ELSE IF o.merge THEN syncMerge(t, ix, objKeys, ownEntries(obj))
                  ELSE IF o.mirror
                  THEN LET m == syncMerge(t, ix, objKeys, ownEntries(obj))
                       IN IF IsThrow(m.ret) THEN m
                          ELSE syncDelete(m.tree, m.index, getKeys(m.tree), objKeys)
                  ELSE Res(t, ix, ErrObj("sync mode not specified"))
         IN IF IsThrow(r.ret) \/ IsFailure(r.ret) THEN r
            ELSE Res(r.tree, rebuildIndex(r.tree), Undefined)

\* ----------------------------------------------------------------- upgrade

\* a function value: the methods of the object view
Func == [t |-> "func"]

RECURSIVE sectionEntries(_)
\* the entries of every section's data, in tree order
sectionEntries(t) ==
    IF Len(t) = 0 THEN <<>> ELSE t[1].data \o sectionEntries(Tail(t))

RECURSIVE assignEntries(_, _)
\* Object.assign(p, source): every entry of the source set on p, in order
assignEntries(p, source) ==
    IF Len(source) = 0 THEN p
    ELSE assignEntries(SetProp(p, Head(source).k, Head(source).v), Tail(source))

\* an object view without the data
objectWithoutData(t) == Obj(<<[k |-> <<"$">>, v |-> Func]>>)

\* object(): the methods $, $save, $saveSync, $sync, then the data of every
\* section assigned over them
object(t) ==
    Obj(assignEntries(<<[k |-> <<"$">>, v |-> Func],
                        [k |-> <<"$", "s", "a", "v", "e">>, v |-> Func],
                        [k |-> <<"$", "s", "a", "v", "e", "S", "y", "n", "c">>, v |-> Func],
                        [k |-> <<"$", "s", "y", "n", "c">>, v |-> Func]>>,
                      assignEntries(<<>>, sectionEntries(t))))

\* upgrade(param) with a Comfig instance, given by its tree and index:
\* newComfig.sync(this.object(), {update:true}); this.tree = newComfig.tree;
\* this._rebuildIndex()
upgrade(t, ix, newComfig) ==
    LET r == sync(newComfig.tree, newComfig.index, object(t),
                  [update |-> TRUE, merge |-> FALSE, mirror |-> FALSE])
    IN IF IsThrow(r.ret) THEN Res(t, ix, r.ret)
       ELSE Res(r.tree, rebuildIndex(r.tree), Undefined)

\* the instance given to upgrade, afterwards: newComfig.sync(this.object(),
\* {update:true}) has left it its tree and its index
upgradeTarget(t, newComfig) ==
    sync(newComfig.tree, newComfig.index, object(t),
         [update |-> TRUE, merge |-> FALSE, mirror |-> FALSE])

\* this.tree = newComfig.tree: the two stores hold one array.  What an
\* operation of one store leaves, r, seen from the other store: its tree is
\* the array the operation worked on in place, its index is its own object
sharedAfter(other, r) == [tree |-> r.tree, index |-> other.index]

\* ------------------------------------------------------------- serializer

\* `${value}` : the text a template literal gives a value
valueText(v) ==
    CASE v.t = "num" ->
            (IF v.neg THEN <<"-">> ELSE <<>>) \o natToString(v.int)
              \o (IF v.frac = <<>> THEN <<>> ELSE <<".">> \o v.frac)
      [] v.t = "str" -> v.s
      [] v.t = "bool" ->
            IF v.b THEN <<"t", "r", "u", "e">> ELSE <<"f", "a", "l", "s", "e">>
      [] v.t = "null" -> <<"n", "u", "l", "l">>
      [] v.t = "undefined" -> <<"u", "n", "d", "e", "f", "i", "n", "e", "d">>
      [] v.t = "nan" -> <<"N", "a", "N">>
      [] OTHER -> <<"[", "o", "b", "j", "e", "c", "t", " ", "O", "b", "j", "e", "c", "t", "]">>

\* a check that lets strings with a line break through
throwOnObjectsOnly(data) ==
    \/ IsObjectType(data)
    \/ data.t = "errobj"

\* throwOnInvalidSubkey: TRUE when it throws
throwOnInvalidSubkey(data) ==
    \/ IsObjectType(data)
    \/ data.t = "errobj"
    \/ (data.t = "str" /\ Includes(data.s, "\n"))

\* the elements a for..of over an array visits, holes as undefined
ValuesOf(v) == IF v.t = "arr" THEN v.e ELSE [j \in 1..Len(v.p) |-> v.p[j].v]

\* the string pushed for one key of a section
keyText(key, v, o) ==
    CASE v.t = "arr" ->
            key \o o.assign \o <<"[", "\n">>
              \o join([j \in 1..Len(v.e) |-> o.indent \o valueText(v.e[j])], <<"\n">>)
              \o <<"\n", "]", "\n">>
      [] v.t = "obj" ->
            key \o o.assign \o <<"{", "\n">>
              \o join([j \in 1..Len(v.p) |->
                          o.indent \o v.p[j].k \o o.assign \o valueText(v.p[j].v)],
                      <<"\n">>)
              \o <<"\n", "}", "\n">>
      [] v.t = "str" /\ Includes(v.s, "\n") ->
            key \o o.assign \o <<"\"", "\"", "\"", "\n">> \o v.s
              \o <<"\n", "\"", "\"", "\"", "\n">>
      [] OTHER ->
            key \o o.assign \o valueText(IF IsUndefined(v) THEN Null ELSE v)
              \o <<"\n">>

\* the strings pushed for one section: its comment, its keys, a delimiter
sectionText(section, o) ==
    (IF Truthy(section.comment) THEN <<valueText(section.comment)>> ELSE <<>>)
      \o [j \in 1..Len(section.data) |->
             keyText(section.data[j].k, section.data[j].v, o)]
      \o << <<"\n">> >>

RECURSIVE popNewlines(_)
\* while(lines[lines.length - 1] == '\n') lines.pop()
popNewlines(lines) ==
    IF Len(lines) > 0 /\ lines[Len(lines)] = <<"\n">>
    THEN popNewlines(SubSeq(lines, 1, Len(lines) - 1))
    ELSE lines

RECURSIVE concatAll(_)
concatAll(ss) == IF Len(ss) = 0 THEN <<>> ELSE Head(ss) \o concatAll(Tail(ss))

\* ComfigSerializer.serialize: the text, or the error thrown for a nested
\* value
serialize(t, o) ==
    IF \E i \in 1..Len(t) : \E j \in 1..Len(t[i].data) :
          LET v == t[i].data[j].v
          IN /\ IsObjectType(v)
             /\ \E n \in 1..Len(ValuesOf(v)) : throwOnInvalidSubkey(ValuesOf(v)[n])
    THEN Throw("Error")
    ELSE Str(concatAll(popNewlines(concatAll([i \in 1..Len(t) |-> sectionText(t[i], o)]))))

\* ----------------------------------------------------------------- parser

RECURSIVE spanKey(_, _)
\* [\w_-]* : the number of key characters of s from position i on
spanKey(s, i) ==
    IF i <= Len(s) /\ IsKeyChar(s[i]) THEN 1 + spanKey(s, i + 1) ELSE 0

RECURSIVE spanSpace(_, _)
\* \s* : the number of white-space characters of s from position i on
spanSpace(s, i) ==
    IF i <= Len(s) /\ IsSpace(s[i]) THEN 1 + spanSpace(s, i + 1) ELSE 0

\* text.replace('\r', '') : the first carriage return removed
removeFirstCR(text) ==
    LET i == IndexOfFrom(text, "\r", 1)
    IN IF i = 0 THEN text
       ELSE SubSeq(text, 1, i - 1) \o SubSeq(text, i + 1, Len(text))

\* (.*) from position i: up to the end of the line or a carriage return
dotStar(s, i) ==
    LET j == IndexOfFrom(s, "\r", i)
    IN IF j = 0 THEN SubSeq(s, i, Len(s)) ELSE SubSeq(s, i, j - 1)

\* /([\w_-]+)\s*[:=]\s*/ matched from position i of the line, given the
\* length n of the key and the position m after the white space behind it:
\* whether it matches, the key, the marker's position and where it ends
assignMarker(line, i, n, m) ==
    IF n > 0 /\ m <= Len(line) /\ line[m] \in {":", "="}
    THEN [matched |-> TRUE, key |-> SubSeq(line, i, i + n - 1), marker |-> m,
          rest |-> m + 1 + spanSpace(line, m + 1)]
    ELSE [matched |-> FALSE, key |-> <<>>, marker |-> 0, rest |-> 0]

assignKey(line, i, n) == assignMarker(line, i, n, i + n + spanSpace(line, i + n))

assignAt(line, i) == assignKey(line, i, spanKey(line, i))

startsAt(line, i, what) ==
    /\ i + Len(what) - 1 <= Len(line)
    /\ SubSeq(line, i, i + Len(what) - 1) = what

TripleQuote == <<"\"", "\"", "\"">>

\* /^([\w_-]+)\s*[:=]\s* """/ given the match r of the part before the
\* quotes: the white space before the quotes must end with a space
matchMultistring(line, r) ==
    /\ r.matched
    /\ r.rest > r.marker + 1
    /\ line[r.rest - 1] = " "
    /\ startsAt(line, r.rest, TripleQuote)

\* /^([\w_-]+)\s*[:=]\s*\[/
matchArray(line, r) == r.matched /\ startsAt(line, r.rest, <<"[">>)

\* /^([\w_-]+)\s*[:=]\s*{/
matchObject(line, r) == r.matched /\ startsAt(line, r.rest, <<"{">>)

\* /^\s+([\w_-]+)\s*[:=]\s*(.*)/ given the leading white space
objectBodyAfter(line, w) ==
    IF w > 0 THEN assignAt(line, w + 1)
    ELSE [matched |-> FALSE, key |-> <<>>, marker |-> 0, rest |-> 0]

objectBodyAt(line) == objectBodyAfter(line, spanSpace(line, 1))

RECURSIVE stripZeros(_)
stripZeros(d) ==
    IF Len(d) > 0 /\ d[Len(d)] = "0" THEN stripZeros(SubSeq(d, 1, Len(d) - 1)) ELSE d

\* /^\d+\.\d+$/ for a string whose first '.' is at dot
isFloatText(v, dot) ==
    /\ dot > 1
    /\ AllDigits(SubSeq(v, 1, dot - 1))
    /\ AllDigits(SubSeq(v, dot + 1, Len(v)))

\* parseFloat of such a string
floatOf(v, dot) ==
    Number(FALSE, digitsValue(SubSeq(v, 1, dot - 1)),
           stripZeros(SubSeq(v, dot + 1, Len(v))))

\* convertValue, after val = val.trim()
convertTrimmed(v) ==
    IF AllDigits(v) THEN Integer(digitsValue(v))
    ELSE IF isFloatText(v, IndexOfFrom(v, ".", 1))
    THEN floatOf(v, IndexOfFrom(v, ".", 1))
    ELSE IF v = <<"t", "r", "u", "e">> THEN Bool(TRUE)
    ELSE IF v = <<"f", "a", "l", "s", "e">> THEN Bool(FALSE)
    ELSE IF \/ v = <<"n", "u", "l", "l">>
            \/ v = <<"u", "n", "d", "e", "f", "i", "n", "e", "d">>
            \/ v = <<>>
    THEN Null
    ELSE Str(v)

\* convertValue
convertValue(val) == convertTrimmed(trim(val))

\* the parser's state: the result so far, the section being read, and the
\* locals of parse (last, key, buffer); threw once a line has raised
ParserStart ==
    [tree |-> <<>>, index |-> EmptyIndex,
     section |-> Section(Str(<<>>), <<>>), sectionId |-> 0,
     last |-> "none", key |-> <<>>, buffer |-> <<>>, threw |-> FALSE]

\* a flush that commits blank sections too
flushAlways(st) ==
    [st EXCEPT !.tree = Append(@, st.section),
               !.sectionId = @ + 1,
               !.section = Section(Str(<<>>), <<>>)]

\* flush: the section goes to the tree unless it is blank
flush(st) ==
    IF st.section.comment.s = <<>> /\ Len(st.section.data) = 0 THEN st
    ELSE [st EXCEPT !.tree = Append(@, st.section),
                    !.sectionId = @ + 1,
                    !.section = Section(Str(<<>>), <<>>)]

\* addComment
addComment(st, comment) ==
    [st EXCEPT !.section.comment = Str(@.s \o comment \o <<"\n">>)]

\* addKey(key, value); last = null
addKey(st, key, value) ==
    [st EXCEPT !.section.data = SetProp(@, key, value),
               !.index = IndexSet(@, key, st.sectionId),
               !.last = "none"]

\* key = r[1]; buffer = []; last = kind
openBlock(st, key, kind) ==
    [st EXCEPT !.key = key, !.last = kind, !.buffer = <<>>]

\* buffer[r[1]] = convertValue(r[2]), a TypeError when r is null
objectBody(st, line, r) ==
    IF ~r.matched THEN [st EXCEPT !.threw = TRUE]
    ELSE [st EXCEPT !.buffer = SetProp(@, r.key, convertValue(dotStar(line, r.rest)))]

\* the body of the loop over the lines for one line, given lean =
\* line.trim() and the match r of the line against /^([\w_-]+)\s*[:=]\s*/
parseMatched(st, line, lean, r) ==
    IF lean = <<>>
    THEN IF st.last = "multistring"
         THEN [st EXCEPT !.buffer = Append(@, line)]
         ELSE IF st.last # "blank"
         THEN [flush(st) EXCEPT !.last = "blank"]
         ELSE st
    ELSE IF matchMultistring(line, r) THEN openBlock(st, r.key, "multistring")
    ELSE IF st.last = "multistring"
    THEN IF lean # TripleQuote
         THEN [st EXCEPT !.buffer = Append(@, line)]
         ELSE addKey(st, st.key, Str(join(st.buffer, <<"\n">>)))
    ELSE IF matchArray(line, r) THEN openBlock(st, r.key, "array")
    ELSE IF st.last = "array"
    THEN IF lean # <<"]">>
         THEN [st EXCEPT !.buffer = Append(@, convertValue(line))]
         ELSE addKey(st, st.key, Arr(st.buffer))
    ELSE IF matchObject(line, r) THEN openBlock(st, r.key, "object")
    ELSE IF st.last = "object"
    THEN IF lean # <<"}">>
         THEN objectBody(st, line, objectBodyAt(line))
         ELSE addKey(st, st.key, Obj(st.buffer))
    ELSE IF r.matched
    THEN addKey(st, r.key, convertValue(dotStar(line, r.rest)))
    ELSE [addComment(st, line) EXCEPT !.last = "none"]

parseLine(st, line) == parseMatched(st, line, trim(line), assignAt(line, 1))

RECURSIVE parseLines(_, _, _)
\* for(const line of lines), left at the line that raises
parseLines(st, lines, i) ==
    IF i > Len(lines) \/ st.threw THEN st
    ELSE parseLines(parseLine(st, lines[i]), lines, i + 1)

\* the parser's result: its tree and index, or the error it raised
parsed(st) ==
    Res(st.tree, st.index, IF st.threw THEN Throw("TypeError") ELSE Undefined)

\* new ComfigParser(text): the tree and the index read from the text, or
\* the TypeError of an object body line the pattern does not match
parse(text) ==
    parsed(flush(parseLines(ParserStart, split(removeFirstCR(text), "\n"), 1)))

\* this.tree = parser.tree; this.index = parser.index, unless the parser
\* raised
replaceState(t, ix, p) == IF IsThrow(p.ret) THEN Res(t, ix, p.ret) ELSE p

\* import(comfigText)
import(t, ix, comfigText) == replaceState(t, ix, parse(comfigText))

\* ------------------------------------------------------- the store's calls

\* the options a store is constructed with: '#' as the comment symbol,
\* the defaults for the others
DefaultOpts ==
    [comment |-> <<"#">>, assign |-> <<":", " ">>, indent |-> <<"\t">>,
     fileMustExist |-> FALSE]

\* the storage: whether the file exists, its text, and the texts of the
\* asynchronous saves not written yet
NoFile == [exists |-> FALSE, text |-> <<>>, pending |-> <<>>]

KA == <<"a">>
KB == <<"b">>
\* a key with the reserved first character
KR == <<"$", "s">>

Keys == {KA, KB}

\* the sequences over S of length 0..n, and those without repetition
SeqsUpTo(S, n) == UNION {[1..m -> S] : m \in 0..n}

Distinct(s) == \A i, j \in 1..Len(s) : s[i] = s[j] => i = j

\* the arguments the calls of the model are made with
SetOpts == [create : BOOLEAN, comment : {Undefined, Str(<<"c">>)}]

SectionIds == 0..MaxSections

NoSectionOpts ==
    [hasId |-> FALSE, id |-> 0, hasKey |-> FALSE, key |-> Undefined,
     hasValue |-> FALSE, value |-> Undefined, hasComment |-> FALSE,
     comment |-> Undefined]

\* opts of addSection: with or without id, with key, value, both or
\* neither, with or without comment
AddSectionOpts ==
    {[hasId |-> id[1], id |-> id[2], hasKey |-> kv[1], key |-> kv[2],
      hasValue |-> kv[3], value |-> kv[4], hasComment |-> cm[1], comment |-> cm[2]] :
        id \in {<<FALSE, 0>>} \cup {<<TRUE, i>> : i \in SectionIds},
        kv \in {<<FALSE, Undefined, FALSE, Undefined>>,
                <<TRUE, Str(KA), FALSE, Undefined>>,
                <<FALSE, Undefined, TRUE, Integer(1)>>,
                <<TRUE, Str(KA), TRUE, Integer(1)>>,
                <<TRUE, Str(KB), TRUE, Integer(1)>>},
        cm \in {<<FALSE, Undefined>>, <<TRUE, Str(<<"c">>)>>}}

\* the value the object given to sync holds for a key
SyncValue(key) == IF key = KB THEN Integer(1) ELSE Integer(2)

SyncObject(ks) == Obj([i \in 1..Len(ks) |-> [k |-> ks[i], v |-> SyncValue(ks[i])]])

\* the objects given to sync: every choice and order of the keys, and some
\* with a reserved key
SyncObjects ==
    {SyncObject(ks) : ks \in {s \in SeqsUpTo(Keys, 2) : Distinct(s)}
                             \cup {<<KR>>, <<KR, KA>>, <<KB, KR>>}}

UpdateMode == [update |-> TRUE, merge |-> FALSE, mirror |-> FALSE]
MergeMode == [update |-> FALSE, merge |-> TRUE, mirror |-> FALSE]
MirrorMode == [update |-> FALSE, merge |-> FALSE, mirror |-> TRUE]
NoSyncMode == [update |-> FALSE, merge |-> FALSE, mirror |-> FALSE]

SyncModes == {UpdateMode, MergeMode, MirrorMode}

\* the calls of sync: every object in every mode, and the two calls that
\* are refused
SyncCalls ==
    (SyncObjects \X SyncModes)
        \cup {<<Null, UpdateMode>>, <<SyncObject(<<KA>>), NoSyncMode>>}

\* ----------------------------------------------------------------- actions

\* a call returns: the store is what the operation left, also when it raised
Returns(r) ==
    /\ Len(r.tree) <= MaxSections
    /\ tree' = r.tree
    /\ index' = r.index
    /\ UNCHANGED <<opts, file, pc>>

Set ==
    \E key \in Keys, o \in SetOpts :
        Returns(set(tree, index, key, Integer(1), o))

Delete ==
    \E key \in Keys, removeComment \in BOOLEAN :
        Returns(delete(tree, index, key, removeComment))

AddSectionKey ==
    \E idx \in SectionIds, key \in Keys :
        Returns(addSectionKey(tree, index, idx, key, Integer(1)))

AddSection ==
    \E o \in AddSectionOpts : Returns(addSection(tree, index, o))

MoveSection ==
    \E idxFrom, idxTo \in SectionIds :
        Returns(moveSection(tree, index, idxFrom, idxTo))

ReorderSection ==
    \E idx \in SectionIds, newOrder \in SeqsUpTo(Keys, 2) :
        Returns(reorderSection(tree, index, idx, newOrder))

DeleteSection ==
    \E idx \in SectionIds : Returns(deleteSection(tree, index, idx))

SetComment ==
    \E entityId \in {Str(k) : k \in Keys} \cup {Integer(i) : i \in SectionIds},
       comment \in {Null, Str(<<"c">>)} :
        Returns(setComment(tree, index, entityId, comment,
                           [add |-> FALSE, raw |-> FALSE]))

Sync ==
    \E c \in SyncCalls : Returns(sync(tree, index, c[1], c[2]))

\* the instances given to upgrade: new layouts whose keys hold the value 7
NewValue == Integer(7)

NewLayouts ==
    {<<>>,
     <<Section(Str(<<"#", " ", "n", "\n">>), <<[k |-> KA, v |-> NewValue]>>)>>,
     <<Section(Str(<<>>), <<[k |-> KB, v |-> NewValue]>>),
       Section(Str(<<"#", " ", "n", "\n">>), <<[k |-> KA, v |-> NewValue]>>)>>,
     <<Section(Str(<<"#", " ", "n", "\n">>),
               <<[k |-> KB, v |-> NewValue], [k |-> KA, v |-> NewValue]>>)>>,
     <<Section(Str(<<"#", " ", "n", "\n">>), <<>>),
       Section(Str(<<>>), <<[k |-> KB, v |-> NewValue]>>)>>}

NewComfigs == {[tree |-> t, index |-> rebuildIndex(t)] : t \in NewLayouts}

Upgrade ==
    \E newComfig \in NewComfigs : Returns(upgrade(tree, index, newComfig))

\* the empty store of a Comfig constructed without a file
Init ==
    /\ tree = <<>>
    /\ index = EmptyIndex
    /\ opts = DefaultOpts
    /\ file = NoFile
    /\ pc = "ready"

Next ==
    \/ Set
    \/ Delete
    \/ AddSectionKey
    \/ AddSection
    \/ MoveSection
    \/ ReorderSection
    \/ DeleteSection
    \/ SetComment
    \/ Sync

Spec == Init /\ [][Next]_vars

\* ------------------------------------------------- upgrade to a new layout

\* stores built with set, addSectionKey, delete and setComment, upgraded to
\* the new layouts
NextUpgrade == Set \/ AddSectionKey \/ Delete \/ SetComment \/ Upgrade

SpecUpgrade == Init /\ [][NextUpgrade]_vars

\* ------------------------------------------------- dotted paths (key.sub)

SubPaths == {KA, KA \o <<".", "x">>, KA \o <<".", "0">>, KB \o <<".", "x">>, KR}

SubValues ==
    {Integer(1), Null, Str(<<"m", "\n", "n">>),
     Arr(<<Integer(1), Integer(2)>>),
     Obj(<<[k |-> <<"x">>, v |-> Integer(1)]>>),
     Obj(<<[k |-> <<"x">>, v |-> Obj(<<[k |-> <<"y">>, v |-> Integer(1)]>>)]>>)}

SetPath ==
    \E dotKey \in SubPaths, value \in SubValues, create \in BOOLEAN :
        Returns(set(tree, index, dotKey, value,
                    [create |-> create, comment |-> Undefined]))

DeletePath ==
    \E dotKey \in SubPaths \cup {KB}, removeComment \in BOOLEAN :
        Returns(delete(tree, index, dotKey, removeComment))

\* sync, in every mode, of objects that hold a reserved key
SyncReserved ==
    \E ks \in {<<KR>>, <<KR, KA>>}, mode \in SyncModes :
        Returns(sync(tree, index, SyncObject(ks), mode))

NextSub == SetPath \/ DeletePath \/ SyncReserved

SpecSub == Init /\ [][NextSub]_vars

\* ------------------------------------------------------- saving and loading

\* valid serialization options: assign matches /^\s*[:=]\s*$/, indent
\* matches /^[ \t]+$/
Assigns == {<<":", " ">>, <<":">>, <<"=">>, <<" ", "=", " ">>}

Indents == {<<"\t">>, <<" ", " ">>}

Configs ==
    {[DefaultOpts EXCEPT !.assign = a, !.indent = i] : a \in Assigns, i \in Indents}

\* values of the supported shapes a saved store is built from
SavedValues ==
    {Null, Bool(TRUE), Bool(FALSE), Integer(0), Integer(7), Integer(0 - 1),
     Number(FALSE, 3, <<"1", "4">>), Str(<<>>), Str(<<"7">>), Str(<<"x">>),
     Str(<<"x", " ", "y">>), Str(<<"m", "\n", "n">>),
     Arr(<<>>), Arr(<<Integer(1), Str(<<"x">>), Bool(FALSE)>>),
     Obj(<<>>),
     Obj(<<[k |-> <<"x">>, v |-> Integer(1)], [k |-> <<"y">>, v |-> Str(<<"s">>)]>>)}

SavedComments == {Str(<<>>), Str(<<"#", " ", "c", "\n">>)}

\* arrays and objects holding an array, an object or a multi-line string,
\* as a top-level set stores them
NestedValues ==
    {Arr(<<Arr(<<>>)>>),
     Arr(<<Integer(1), Str(<<"m", "\n", "n">>)>>),
     Arr(<<Obj(<<[k |-> <<"x">>, v |-> Integer(1)]>>), Integer(1)>>),
     Obj(<<[k |-> <<"x">>, v |-> Obj(<<>>)]>>),
     Obj(<<[k |-> <<"x">>, v |-> Integer(1)],
           [k |-> <<"y">>, v |-> Str(<<"m", "\n", "n">>)]>>),
     Obj(<<[k |-> <<"x">>, v |-> Arr(<<Integer(1)>>)]>>)}

\* stores built with set and addSection: one key alone, two keys in one
\* section, two sections
SavedTrees ==
    {<<Section(c, <<[k |-> KA, v |-> v]>>)>> : c \in SavedComments, v \in SavedValues}
    \cup {<<Section(c, <<[k |-> KA, v |-> v], [k |-> KB, v |-> Integer(1)]>>)>> :
            c \in SavedComments, v \in SavedValues}
    \cup {<<Section(Str(<<>>), <<[k |-> KA, v |-> v]>>),
            Section(c, <<[k |-> KB, v |-> Integer(1)]>>)>> :
            c \in SavedComments, v \in SavedValues}

\* stores in which the first or the last key holds a nested value
NestedTrees ==
    {<<Section(c, <<[k |-> KA, v |-> v]>>)>> : c \in SavedComments, v \in NestedValues}
    \cup {<<Section(Str(<<>>), <<[k |-> KB, v |-> Integer(1)]>>),
            Section(c, <<[k |-> KA, v |-> v]>>)>> :
            c \in SavedComments, v \in NestedValues}

InitSaved ==
    /\ tree \in SavedTrees \cup NestedTrees
    /\ index = rebuildIndex(tree)
    /\ opts \in Configs
    /\ file = NoFile
    /\ pc = "ready"

\* saveSync(): the text of the store replaces the file, unless serialize
\* throws
SaveSync ==
    \E text \in {serialize(tree, opts)} :
        /\ IF IsThrow(text)
           THEN file' = file /\ pc' = "threw"
           ELSE file' = [file EXCEPT !.exists = TRUE, !.text = text.s] /\ pc' = "saved"
        /\ UNCHANGED <<tree, index, opts>>

\* save(): the text is serialized at the call, the write comes later; the
\* promise is rejected, and nothing is written, when serialize throws
Save ==
    /\ Len(file.pending) < MaxPending
    /\ \E text \in {serialize(tree, opts)} :
          IF IsThrow(text)
          THEN file' = file /\ pc' = "threw"
          ELSE file' = [file EXCEPT !.pending = Append(@, text.s)] /\ pc' = "saving"
    /\ UNCHANGED <<tree, index, opts>>

\* a write that takes the text from the store when it completes
WrittenLate ==
    \E i \in 1..Len(file.pending) :
        /\ file' = [exists |-> TRUE,
                    text |-> IF IsThrow(serialize(tree, opts)) THEN file.pending[i]
                             ELSE serialize(tree, opts).s,
                    pending |-> RemoveAt(file.pending, i - 1)]
        /\ pc' = "written"
        /\ UNCHANGED <<tree, index, opts>>

\* fs.promises.writeFile of an earlier save() completes
Written ==
    \E i \in 1..Len(file.pending) :
        /\ file' = [exists |-> TRUE, text |-> file.pending[i],
                    pending |-> RemoveAt(file.pending, i - 1)]
        /\ pc' = "written"
        /\ UNCHANGED <<tree, index, opts>>

\* loadSync(): the store read from the file replaces the store; false and
\* no change when there is no file (fileMustExist is off)
LoadSync ==
    IF file.exists
    THEN \E r \in {import(tree, index, file.text)} :
            /\ tree' = r.tree
            /\ index' = r.index
            /\ pc' = IF IsThrow(r.ret) THEN "threw" ELSE "loaded"
            /\ UNCHANGED <<opts, file>>
    ELSE UNCHANGED vars

NextSaved == SaveSync \/ Save \/ Written \/ LoadSync

SpecSaved == InitSaved /\ [][NextSaved]_vars

\* ------------------------------------------- saving while the store changes

\* the empty store and stores with one nested value, changed with set and
\* delete while the writes of save() are under way
InitSnapshot ==
    /\ tree \in {<<>>} \cup {t \in NestedTrees : Len(t) = 1}
    /\ index = rebuildIndex(tree)
    /\ opts = DefaultOpts
    /\ file = NoFile
    /\ pc = "ready"

NextSnapshot == Set \/ Delete \/ Save \/ Written

SpecSnapshot == InitSnapshot /\ [][NextSnapshot]_vars

\* ------------------------------------------------------ reading any text

\* the lines the texts are made of: a blank line, a comment, two options
\* (one repeating the key of the block), the opener and the closer of a
\* multi-line string, the opener of an object
TextLines ==
    {<<>>,
     <<"#", " ", "c">>,
     <<"a", ":", " ", "1">>,
     <<"b", ":", " ", "2">>,
     <<"a", ":", " ", "\"", "\"", "\"">>,
     TripleQuote,
     <<"a", ":", " ", "{">>}

\* the files found at the store's path: every text of up to MaxLines lines
Texts == {join(ls, <<"\n">>) : ls \in SeqsUpTo(TextLines, MaxLines)}

InitParse ==
    /\ tree = <<>>
    /\ index = EmptyIndex
    /\ opts = DefaultOpts
    /\ file \in {[exists |-> TRUE, text |-> text, pending |-> <<>>] : text \in Texts}
    /\ pc = "ready"

SpecParse == InitParse /\ [][NextSaved]_vars

\* ------------------------------------------------------------ the claims

\* values of every supported shape
Multi == Str(<<"m", "\n", "n">>)

SupportedValues ==
    {Null, Bool(TRUE), Bool(FALSE), Integer(0), Integer(7),
     Number(FALSE, 3, <<"1", "4">>), Str(<<>>), Str(<<"x">>), Multi,
     Arr(<<>>), Arr(<<Integer(1), Str(<<"x">>), Bool(FALSE)>>),
     Obj(<<>>), Obj(<<[k |-> <<"x">>, v |-> Integer(1)]>>)}

\* a default no stored value equals
Dflt == Str(<<"d", "f", "l", "t">>)

\* key names the claims are tried on: the keys of the calls, a reserved one
\* and one no call creates
ProbeKeys == Keys \cup {KR, <<"k", "2">>}

SeqToSet(s) == {s[i] : i \in 1..Len(s)}

\* C1: Index consistency.  After any sequence of public operations from the
\* empty store, every key k of tree[i].data has index[k] = i, and the index
\* holds no entry for a key that is in no section's data.
C1_IndexConsistent ==
    /\ \A i \in 1..Len(tree) : \A j \in 1..Len(tree[i].data) :
          /\ tree[i].data[j].k \in DOMAIN index
          /\ index[tree[i].data[j].k] = i - 1
    /\ \A k \in DOMAIN index : k \in TreeKeys(tree)

\* C2: Round trip.  For every tree built only from supported value shapes
\* and every valid serialization configuration, parsing the text the
\* serializer produced yields the same sections in the same order with the
\* same comments, keys, key order and values: loading what was just saved
\* leaves the tree as it was.
C2_RoundTrip == [][(pc = "saved" /\ pc' = "loaded") => tree' = tree]_vars

\* C3: Create then read.  For a key the store does not know and a value of
\* any supported shape, set(key, v, {create:true}) appends exactly one
\* section holding only that key, returns its position (the previous
\* section count, which getSectionId(key) then gives), leaves every
\* existing section and position as it was, and get(key) returns v.
C3_CreateThenRead ==
    \A key \in ProbeKeys, v \in SupportedValues, cm \in {Undefined, Str(<<"c">>)} :
        key \notin DOMAIN index =>
            LET r == set(tree, index, key, v, [create |-> TRUE, comment |-> cm])
            IN /\ Len(r.tree) = Len(tree) + 1
               /\ SubSeq(r.tree, 1, Len(tree)) = tree
               /\ r.tree[Len(r.tree)].data = <<[k |-> key, v |-> v]>>
               /\ r.ret = Integer(Len(tree))
               /\ getSectionId(r.index, key) = Integer(Len(tree))
               /\ \A k \in DOMAIN index : r.index[k] = index[k]
               /\ get(r.tree, r.index, key, Dflt) = v

\* C3's case: a store that already holds a section, and a key it does not
\* know whose creation returns the position after the last section
C3_Witness ==
    /\ Len(tree) >= 1
    /\ KA \in DOMAIN index
    /\ KB \notin DOMAIN index
    /\ set(tree, index, KB, Integer(7), [create |-> TRUE, comment |-> Undefined]).ret
         = Integer(Len(tree))

\* C4: Delete of a top-level key.  After delete(key, removeComment) on an
\* existing key get(key, d) returns d; the owning section is kept if it has
\* other keys, kept as a comment-only section if it has a comment and
\* removeComment is false, and otherwise removed with the later sections
\* moving up; delete of a key that does not exist returns false and changes
\* nothing.
C4_DeleteTopLevel ==
    \A key \in ProbeKeys, removeComment \in BOOLEAN :
        LET r == delete(tree, index, key, removeComment)
        IN IF key \in DOMAIN index
           THEN LET i == index[key] + 1
                    rest == DelProp(tree[i].data, key)
                IN /\ get(r.tree, r.index, key, Dflt) = Dflt
                   /\ r.tree = IF Len(rest) > 0 \/ (Truthy(tree[i].comment) /\ ~removeComment)
                               THEN [tree EXCEPT ![i].data = rest]
                               ELSE RemoveAt(tree, i - 1)
           ELSE /\ r.ret = Bool(FALSE)
                /\ r.tree = tree
                /\ r.index = index

IsPermutationOf(newOrder, keys) ==
    /\ Len(newOrder) = Len(keys)
    /\ SeqToSet(newOrder) = SeqToSet(keys)

\* C5: reorderSection(id, newOrder) succeeds only when newOrder is exactly
\* a permutation of the section's keys, and then the section holds the same
\* keys and values in the order of newOrder; for every other array it
\* returns a failure value and leaves the section unchanged.
C5_ReorderOnlyPermutation ==
    \A idx \in 0..(Len(tree) - 1), newOrder \in SeqsUpTo(Keys \cup {KR}, 3) :
        LET r == reorderSection(tree, index, idx, newOrder)
            data == tree[idx + 1].data
        IN IF IsPermutationOf(newOrder, ObjectKeys(data))
           THEN /\ ~IsFailure(r.ret)
                /\ ObjectKeys(r.tree[idx + 1].data) = newOrder
                /\ \A k \in SeqToSet(newOrder) :
                      GetProp(r.tree[idx + 1].data, k) = GetProp(data, k)
                /\ r.tree = [tree EXCEPT ![idx + 1].data = r.tree[idx + 1].data]
           ELSE /\ IsFailure(r.ret)
                /\ r.tree = tree
                /\ r.index = index

\* C6: sync in update mode never adds or deletes keys.  The sections, their
\* order and comments and the key order inside each section stay as they
\* were; a key that the object also holds has the object's value, every
\* other value is unchanged.
C6_UpdateNeverAddsOrDeletes ==
    \A obj \in SyncObjects :
        LET r == sync(tree, index, obj, UpdateMode)
        IN /\ Len(r.tree) = Len(tree)
           /\ \A i \in 1..Len(tree) :
                /\ r.tree[i].comment = tree[i].comment
                /\ ObjectKeys(r.tree[i].data) = ObjectKeys(tree[i].data)
                /\ \A j \in 1..Len(tree[i].data) :
                      r.tree[i].data[j].v =
                          IF HasProp(obj.p, tree[i].data[j].k)
                          THEN GetProp(obj.p, tree[i].data[j].k)
                          ELSE tree[i].data[j].v

\* the keys of an object sync considers: those not starting with '$'
Considered(obj) ==
    SelectSeq(ObjectKeys(obj.p), LAMBDA k : Len(k) = 0 \/ Head(k) # "$")

\* C7: sync in merge mode adds but never removes.  Every key a section held
\* is still in that section, the key set is the union of the previous one
\* and the object's considered keys, each key the store did not know is
\* alone in a new section with empty comment appended at the end, in the
\* object's key order, and get(k) is the object's value for every
\* considered key k.
C7_MergeAddsNeverRemoves ==
    \A obj \in SyncObjects :
        LET r == sync(tree, index, obj, MergeMode)
            added == SelectSeq(Considered(obj), LAMBDA k : k \notin DOMAIN index)
        IN /\ Len(r.tree) = Len(tree) + Len(added)
           /\ \A i \in 1..Len(tree) :
                /\ r.tree[i].comment = tree[i].comment
                /\ \A j \in 1..Len(tree[i].data) :
                      HasProp(r.tree[i].data, tree[i].data[j].k)
           /\ TreeKeys(r.tree) = TreeKeys(tree) \cup SeqToSet(Considered(obj))
           /\ \A n \in 1..Len(added) :
                r.tree[Len(tree) + n] =
                    Section(Str(<<>>), <<[k |-> added[n], v |-> GetProp(obj.p, added[n])]>>)
           /\ \A k \in SeqToSet(Considered(obj)) :
                get(r.tree, r.index, k, Dflt) = GetProp(obj.p, k)

\* C8: sync in mirror mode makes the local key set equal to the object's:
\* getKeys() is the set of the object's keys not starting with '$', get(k)
\* is the object's value for each, and every section that lost all its keys
\* is removed even if it carried a comment.
C8_MirrorKeySet ==
    \A obj \in SyncObjects :
        LET r == sync(tree, index, obj, MirrorMode)
            want == SeqToSet(Considered(obj))
            kept == {i \in 1..Len(tree) :
                        \/ Len(tree[i].data) = 0
                        \/ \E j \in 1..Len(tree[i].data) : tree[i].data[j].k \in want}
        IN /\ SeqToSet(getKeys(r.tree)) = want
           /\ \A k \in want : get(r.tree, r.index, k, Dflt) = GetProp(obj.p, k)
           /\ Len(r.tree) = Cardinality(kept) + Cardinality(want \ DOMAIN index)

\* C9: Creation must be explicitly allowed.  set(path, value, opts) on a
\* key the store does not know, with opts.create not set, returns a failure
\* value and leaves tree and index unchanged.
C9_CreateMustBeAllowed ==
    \A key \in ProbeKeys, sub \in {<<>>, <<".", "x">>}, v \in SupportedValues,
       cm \in {Undefined, Str(<<"c">>)} :
        key \notin DOMAIN index =>
            LET r == set(tree, index, key \o sub, v, [create |-> FALSE, comment |-> cm])
            IN /\ IsFailure(r.ret)
               /\ r.tree = tree
               /\ r.index = index

\* C9's case: a store with a section, and a key it does not know that set
\* refuses to create
C9_Witness ==
    /\ Len(tree) >= 1
    /\ KA \in DOMAIN index
    /\ KB \notin DOMAIN index
    /\ IsFailure(set(tree, index, KB, Integer(1),
                     [create |-> FALSE, comment |-> Undefined]).ret)

InvalidSubValues ==
    {Arr(<<>>), Arr(<<Integer(1), Integer(2)>>), Obj(<<>>),
     Obj(<<[k |-> <<"x">>, v |-> Integer(1)]>>),
     Obj(<<[k |-> <<"x">>, v |-> Arr(<<Null>>)]>>),
     Multi, Str(<<"\n">>)}

\* C10: Sub-key values must be primitives.  set(key.sub, value, opts) with
\* a value that is an object, an array or a string containing a line break
\* returns a failure value and leaves tree and index unchanged, whether the
\* top-level key already exists or is unknown with opts.create set.
C10_SubkeyValuesPrimitive ==
    \A key \in ProbeKeys, sk \in {<<"x">>, <<"0">>}, v \in InvalidSubValues,
       create \in BOOLEAN, cm \in {Undefined, Str(<<"c">>)} :
        (key \in DOMAIN index \/ create) =>
            LET r == set(tree, index, key \o <<".">> \o sk, v,
                         [create |-> create, comment |-> cm])
            IN /\ IsFailure(r.ret)
               /\ r.tree = tree
               /\ r.index = index

\* C10's case: a store where one key holds an object with a sub-key and the
\* other key is unknown; a multi-line string for the sub-key of the first
\* and an array for a sub-key of the second, with create, are both refused
C10_Witness ==
    /\ KA \in DOMAIN index
    /\ get(tree, index, KA \o <<".", "x">>, Dflt) = Integer(1)
    /\ KB \notin DOMAIN index
    /\ IsFailure(set(tree, index, KA \o <<".", "x">>, Multi,
                     [create |-> FALSE, comment |-> Undefined]).ret)
    /\ IsFailure(set(tree, index, KB \o <<".", "x">>, Arr(<<Integer(1)>>),
                     [create |-> TRUE, comment |-> Undefined]).ret)


\* an array, an object, or a string containing a line break
IsNestedValue(v) ==
    \/ v.t \in {"arr", "obj"}
    \/ (v.t = "str" /\ \E n \in 1..Len(v.s) : v.s[n] = "\n")

\* some array element or object value of the tree is such a value
HasNested(t) ==
    \E i \in 1..Len(t) : \E j \in 1..Len(t[i].data) :
        LET v == t[i].data[j].v IN
        \/ (v.t = "arr" /\ \E n \in 1..Len(v.e) : IsNestedValue(v.e[n]))
        \/ (v.t = "obj" /\ \E n \in 1..Len(v.p) : IsNestedValue(v.p[n].v))

\* C11: serializing a tree in which an array element or an object value is an
\* array, an object or a string with a line break raises an error, and no
\* step taken from such a store (save, saveSync) writes to the storage.
C11_NestedNeverSaved ==
    [][HasNested(tree) => (IsThrow(serialize(tree, opts)) /\ file' = file)]_vars

\* a save of a store holding a nested value was attempted and threw
C11_Witness == HasNested(tree) /\ pc = "threw" /\ ~file.exists /\ file.pending = <<>>


\* C12: after any sequence of writes that returned success, no array or
\* object stored in the tree contains an array, an object or a multi-line
\* string.
C12_NoNestedStored == ~HasNested(tree)


\* the requests addSection has to refuse: nothing supplied, only id
\* supplied, one of key and value without the other, a key the store
\* already has, an id that is not the position of a section
BadSectionRequest(o) ==
    \/ (~o.hasId /\ ~o.hasKey /\ ~o.hasValue /\ ~o.hasComment)
    \/ (o.hasId /\ ~o.hasKey /\ ~o.hasValue /\ ~o.hasComment)
    \/ (o.hasKey # o.hasValue)
    \/ (o.hasKey /\ (o.key.s \in DOMAIN index \/ o.key.s \in TreeKeys(tree)))
    \/ (o.hasId /\ o.id \notin 0..(Len(tree) - 1))

\* C13: addSection rejects bad requests without side effects: for each of
\* the requests above it returns a failure value and leaves the tree and
\* the index as they were.
C13_AddSectionRejects ==
    \A o \in AddSectionOpts :
        BadSectionRequest(o) =>
            LET r == addSection(tree, index, o)
            IN IsFailure(r.ret) /\ r.tree = tree /\ r.index = index

\* the section a request of addSection creates
RequestedSection(o) ==
    Section(formatComment(o.comment),
            IF o.hasKey THEN <<[k |-> o.key.s, v |-> o.value]>> ELSE <<>>)

\* C14: addSection placement.  A successful addSection with id inserts the
\* new section at position id, moves every section formerly at a position
\* >= id down by one, keeps the sections before id and returns id; without
\* id the new section becomes the last one and its position is returned.
\* In both cases the new section, and its key by getSectionId, is found at
\* the returned position.
C14_AddSectionPlacement ==
    \A o \in AddSectionOpts :
        LET r == addSection(tree, index, o)
            pos == IF o.hasId THEN o.id ELSE Len(tree)
        IN ~IsFailure(r.ret) =>
            /\ r.ret = Integer(pos)
            /\ Len(r.tree) = Len(tree) + 1
            /\ \A i \in 1..Len(tree) :
                  tree[i] = r.tree[IF i - 1 < pos THEN i ELSE i + 1]
            /\ r.tree[pos + 1] = RequestedSection(o)
            /\ (o.hasKey => getSectionId(r.index, o.key.s) = Integer(pos))

\* the positions moveSection is probed with, invalid ones included
MovePositions == (0 - 1)..MaxSections

\* C15: moveSection(from, to) with two valid positions gives the old
\* sequence with the section at from taken out and put back immediately
\* before the section that was at to: it ends at to-1 when from < to, at to
\* when from > to, nothing moves when from = to; the other sections keep
\* their order and content and the count is unchanged.  With an invalid
\* position it returns a failure value and changes nothing.
C15_MoveSection ==
    \A from, to \in MovePositions :
        LET r == moveSection(tree, index, from, to)
            dest == IF from < to THEN to - 1 ELSE to
        IN IF validSection(tree, from) /\ validSection(tree, to)
           THEN /\ ~IsFailure(r.ret)
                /\ Len(r.tree) = Len(tree)
                /\ r.tree[dest + 1] = tree[from + 1]
                /\ (from # to => r.tree[dest + 2] = tree[to + 1])
                /\ (from = to => r.tree = tree)
                /\ RemoveAt(r.tree, dest) = RemoveAt(tree, from)
           ELSE IsFailure(r.ret) /\ r.tree = tree /\ r.index = index

\* C15's case: three different sections; moving the first before the third
\* puts it at position 1, moving the third before the first at position 0
C15_Witness ==
    /\ Len(tree) = 3
    /\ tree[1] # tree[2] /\ tree[2] # tree[3] /\ tree[1] # tree[3]
    /\ moveSection(tree, index, 0, 2).tree = <<tree[2], tree[1], tree[3]>>
    /\ moveSection(tree, index, 2, 0).tree = <<tree[3], tree[1], tree[2]>>

\* C16: addSectionKey(sectionId, key, value) returns a failure value and
\* changes nothing whenever sectionId is not the position of a section or
\* the key is already present in the store, whichever section owns it
\* (position 0 included); otherwise it adds the key with the value at the
\* end of that section's data, sets index[key] to sectionId and changes no
\* other section.
C16_AddSectionKey ==
    \A idx \in MovePositions, key \in ProbeKeys :
        LET r == addSectionKey(tree, index, idx, key, Integer(7))
        IN IF ~validSection(tree, idx) \/ key \in DOMAIN index
           THEN IsFailure(r.ret) /\ r.tree = tree /\ r.index = index
           ELSE /\ ~IsFailure(r.ret)
                /\ Len(r.tree) = Len(tree)
                /\ r.tree[idx + 1].comment = tree[idx + 1].comment
                /\ r.tree[idx + 1].data =
                      Append(tree[idx + 1].data, [k |-> key, v |-> Integer(7)])
                /\ \A i \in 1..Len(tree) : i # idx + 1 => r.tree[i] = tree[i]
                /\ key \in DOMAIN r.index /\ r.index[key] = idx

\* C17: no empty section is ever held: in every reachable state the tree
\* contains no section whose comment is empty and whose data has no keys.
C17_NoEmptySection ==
    \A i \in 1..Len(tree) : ~(tree[i].comment = Str(<<>>) /\ tree[i].data = <<>>)

\* the value the store holds for a key the index lists
Stored(key) == GetProp(tree[index[key] + 1].data, key)

\* an object has the property sk, an array the element or property sk
SubExists(v, sk) ==
    CASE v.t = "obj" -> HasProp(v.p, sk)
      [] v.t = "arr" ->
            IF IsArrayIndex(sk) THEN digitsValue(sk) < Len(v.e) ELSE HasProp(v.x, sk)
      [] OTHER -> FALSE

\* C18: hasKey(path) returns true exactly when the addressed top-level key
\* or, for a dotted path into an object or an array, the addressed sub-key
\* exists in the store, whatever value it holds, and false exactly when it
\* does not exist.
C18_HasKey ==
    \A key \in ProbeKeys :
        /\ hasKey(tree, index, key) = Bool(key \in DOMAIN index)
        /\ \A sk \in {<<"x">>, <<"0">>} :
              (key \in DOMAIN index => IsObjectType(Stored(key))) =>
                  hasKey(tree, index, key \o <<".">> \o sk)
                      = Bool(key \in DOMAIN index /\ SubExists(Stored(key), sk))

\* the element or property sk of an array or object that has it
SubValue(v, sk) ==
    IF v.t = "obj" THEN GetProp(v.p, sk)
    ELSE IF IsArrayIndex(sk) THEN v.e[digitsValue(sk) + 1]
    ELSE GetProp(v.x, sk)

\* C19: get(path, default) returns default when the top-level key is
\* absent; for a dotted path it returns the addressed array element or
\* object property if present and default otherwise, whatever the shape of
\* the key's value (null, scalar, string, array, object); for a bare key it
\* returns the stored value itself, a stored null included.
C19_Get ==
    \A key \in ProbeKeys :
        /\ get(tree, index, key, Dflt)
              = (IF key \in DOMAIN index THEN Stored(key) ELSE Dflt)
        /\ \A sk \in {<<"x">>, <<"0">>} :
              get(tree, index, key \o <<".">> \o sk, Dflt)
                = (IF key \in DOMAIN index /\ SubExists(Stored(key), sk)
                   THEN SubValue(Stored(key), sk) ELSE Dflt)

\* the comments written and the entities addressed in the probes of
\* setComment: keys, positions, and values that are neither
CommentTexts == {<<"c">>, <<"c", "\n", "d">>, <<"r", "\n">>}

CommentEntities ==
    {Str(k) : k \in ProbeKeys} \cup {Integer(i) : i \in MovePositions}
        \cup {Null, Bool(TRUE)}

\* every line of the text prefixed with the marker and a space and
\* terminated by a line break
MarkedLines(text) ==
    LET lines == split(text, "\n")
    IN concatAll([i \in 1..Len(lines) |-> opts.comment \o <<" ">> \o lines[i] \o <<"\n">>])

\* the text terminated by a line break
Terminated(text) ==
    IF Len(text) > 0 /\ text[Len(text)] = "\n" THEN text ELSE text \o <<"\n">>

\* the position an entity addresses: a section position, or the position
\* the index gives for a key; -1 when there is none
EntityPosition(entity) ==
    IF entity.t = "num"
    THEN IF ~entity.neg /\ entity.int < Len(tree) THEN entity.int ELSE 0 - 1
    ELSE IF entity.t = "str" /\ entity.s \in DOMAIN index THEN index[entity.s]
    ELSE 0 - 1

\* C20: comment write modes.  setComment addressed by a key or by that
\* key's section position has the same effect; by default it replaces the
\* section's comment with the formatted text (every line prefixed with the
\* marker and a space, each terminated by a line break); with add it
\* appends to the existing comment; with raw it stores the caller's string
\* unformatted, terminated by a line break; reading the comment raw then
\* returns exactly the stored string.  An unknown key, an invalid position
\* or an entity that is neither returns a failure value and changes
\* nothing; data and index are never changed.
C20_CommentModes ==
    \A entity \in CommentEntities, text \in CommentTexts, add, raw \in BOOLEAN :
        LET r == setComment(tree, index, entity, Str(text), [add |-> add, raw |-> raw])
            pos == EntityPosition(entity)
        IN IF pos < 0
           THEN IsFailure(r.ret) /\ r.tree = tree /\ r.index = index
           ELSE LET stored == Str((IF add THEN tree[pos + 1].comment.s ELSE <<>>)
                                  \o (IF raw THEN Terminated(text) ELSE MarkedLines(text)))
                IN /\ ~IsFailure(r.ret) /\ ~IsThrow(r.ret)
                   /\ r.tree = [tree EXCEPT ![pos + 1].comment = stored]
                   /\ r.index = index
                   /\ getSectionComment(r.tree, pos) = stored
                   /\ (entity.t = "str" =>
                         /\ getKeyComment(r.tree, r.index, entity.s) = stored
                         /\ r = setComment(tree, index, Integer(pos), Str(text),
                                           [add |-> add, raw |-> raw]))

\* C20's case: key a in the second of two sections, which has a comment;
\* adding two lines by key appends them, marked, to that comment, and a raw
\* replacement by position stores the caller's text with a line break
C20_Witness ==
    /\ Len(tree) = 2
    /\ KA \in DOMAIN index /\ index[KA] = 1
    /\ tree[2].comment = Str(<<"#", " ", "c", "\n">>)
    /\ setComment(tree, index, Str(KA), Str(<<"c", "\n", "d">>),
                  [add |-> TRUE, raw |-> FALSE]).tree[2].comment
         = Str(<<"#", " ", "c", "\n", "#", " ", "c", "\n", "#", " ", "d", "\n">>)
    /\ setComment(tree, index, Integer(1), Str(<<"c">>),
                  [add |-> FALSE, raw |-> TRUE]).tree[2].comment
         = Str(<<"c", "\n">>)

\* a string that is empty or ends with a line break
WellFormedComment(c) ==
    c.t = "str" /\ (c.s = <<>> \/ c.s[Len(c.s)] = "\n")

\* the arrays of lines given to setComment
CommentLines == {<<Str(<<"c">>)>>, <<Str(<<"c">>), Str(<<"d">>)>>}

\* C21: setComment accepts the comment as an array of lines: the stored
\* comment is each line prefixed with the marker and terminated by a line
\* break, the same as for the string of those lines joined with line
\* breaks; and every section's comment, before and after, is a string that
\* is empty or ends with a line break.
C21_ArrayOfLines ==
    /\ \A i \in 1..Len(tree) : WellFormedComment(tree[i].comment)
    /\ \A entity \in CommentEntities, lines \in CommentLines :
          LET pos == EntityPosition(entity)
              text == join([i \in 1..Len(lines) |-> lines[i].s], <<"\n">>)
              r == setComment(tree, index, entity, Arr(lines),
                              [add |-> FALSE, raw |-> FALSE])
          IN pos >= 0 =>
                /\ r.tree[pos + 1].comment = Str(MarkedLines(text))
                /\ r.tree = setComment(tree, index, entity, Str(text),
                                       [add |-> FALSE, raw |-> FALSE]).tree
                /\ \A i \in 1..Len(r.tree) : WellFormedComment(r.tree[i].comment)

\* values that are not a plain key-value mapping: null, primitives, arrays
NonMappings ==
    {Null, Integer(1), Bool(TRUE), Str(<<"s">>), Arr(<<>>), Arr(<<Integer(5)>>)}

\* C22: sync fails without side effects: sync(obj, opts) returns a failure
\* value and leaves tree and index unchanged when obj is not a plain
\* key-value mapping (null, a primitive, an array) or when none of update,
\* merge, mirror is set.
C22_SyncRefuses ==
    /\ \A obj \in NonMappings, mode \in SyncModes \cup {NoSyncMode} :
          LET r == sync(tree, index, obj, mode)
          IN IsFailure(r.ret) /\ r.tree = tree /\ r.index = index
    /\ \A obj \in SyncObjects :
          LET r == sync(tree, index, obj, NoSyncMode)
          IN IsFailure(r.ret) /\ r.tree = tree /\ r.index = index

\* the mappings with a reserved key that sync is probed with
ReservedObjects == {SyncObject(<<KR>>), SyncObject(<<KR, KA>>), SyncObject(<<KB, KR>>)}

\* C23: reserved keys are excluded from sync in every mode: in update,
\* merge and mirror alike an entry whose key starts with '$' never creates
\* a key and never overwrites a value of the store.
C23_ReservedExcluded ==
    \A obj \in ReservedObjects, mode \in SyncModes :
        LET r == sync(tree, index, obj, mode)
        IN /\ (KR \notin TreeKeys(tree) => KR \notin TreeKeys(r.tree))
           /\ \A i \in 1..Len(tree) : \A n \in 1..Len(r.tree) :
                (HasProp(tree[i].data, KR) /\ HasProp(r.tree[n].data, KR)) =>
                    GetProp(r.tree[n].data, KR) = GetProp(tree[i].data, KR)

\* the value the current store has for a key of one of its sections: what
\* get returns, or the section's value when the index does not list the key
CurrentValue(k) ==
    IF k \in DOMAIN index THEN get(tree, index, k, Dflt)
    ELSE LET i == CHOOSE i \in 1..Len(tree) : HasProp(tree[i].data, k)
         IN GetProp(tree[i].data, k)

\* C24: upgrade(target) forces the target's layout while preserving current
\* values: afterwards the sections, their order, comments, key set and key
\* order are the target's; every key present in both holds the value the
\* current store had; every key only in the target keeps the target's
\* value; keys only in the current store are gone; and the index is
\* consistent with the new tree.
C24_Upgrade ==
    \A target \in NewComfigs :
        LET r == upgrade(tree, index, target)
        IN /\ ~IsThrow(r.ret)
           /\ Len(r.tree) = Len(target.tree)
           /\ \A i \in 1..Len(target.tree) :
                /\ r.tree[i].comment = target.tree[i].comment
                /\ ObjectKeys(r.tree[i].data) = ObjectKeys(target.tree[i].data)
                /\ \A j \in 1..Len(target.tree[i].data) :
                      LET k == target.tree[i].data[j].k
                      IN /\ r.tree[i].data[j].v =
                              (IF k \in TreeKeys(tree) THEN CurrentValue(k)
                               ELSE target.tree[i].data[j].v)
                         /\ k \in DOMAIN r.index /\ r.index[k] = i - 1
           /\ DOMAIN r.index = TreeKeys(target.tree)

\* C24's case: the store holds key a, with value 1, in a commented section
\* after a section with key b; upgraded to the layout that has b and a in
\* one section, both keep the current value; upgraded to the layout with a
\* only, b is gone
C24_Witness ==
    /\ Len(tree) = 2
    /\ ObjectKeys(tree[1].data) = <<KB>> /\ ObjectKeys(tree[2].data) = <<KA>>
    /\ tree[2].comment = Str(<<"#", " ", "c", "\n">>)
    /\ upgrade(tree, index,
               [tree |-> <<Section(Str(<<"#", " ", "n", "\n">>),
                                   <<[k |-> KB, v |-> NewValue], [k |-> KA, v |-> NewValue]>>)>>,
                index |-> (KA :> 0 @@ KB :> 0)]).tree
         = <<Section(Str(<<"#", " ", "n", "\n">>),
                     <<[k |-> KB, v |-> Integer(1)], [k |-> KA, v |-> Integer(1)]>>)>>
    /\ upgrade(tree, index,
               [tree |-> <<Section(Str(<<"#", " ", "n", "\n">>), <<[k |-> KA, v |-> NewValue]>>)>>,
                index |-> (KA :> 0)]).tree
         = <<Section(Str(<<"#", " ", "n", "\n">>), <<[k |-> KA, v |-> Integer(1)]>>)>>

\* the kind of text a value is written as: a single line, a multi-line
\* string block, an array block or an object block
ValueKind(v) ==
    CASE v.t = "arr" -> "array"
      [] v.t = "obj" -> "object"
      [] IsNestedValue(v) -> "multiline"
      [] OTHER -> "single"

\* the keys of every section with the kind of their value
KeyKinds(t) ==
    [i \in 1..Len(t) |->
        [j \in 1..Len(t[i].data) |-> <<t[i].data[j].k, ValueKind(t[i].data[j].v)>>]]

\* no key holds an array or an object without members
NoEmptyBlock(t) ==
    \A i \in 1..Len(t) : \A j \in 1..Len(t[i].data) :
        t[i].data[j].v \notin {Arr(<<>>), Obj(<<>>)}

\* C25: the parser accepts ':' and '=' with any padding, none included, in
\* every key position: single-line values and the openers of multi-line
\* string, array and object blocks are recognised for every assignment
\* marker the serializer may emit, so a file written with a valid assign
\* option is read back with the same keys and value kinds.
C25_EveryAssignMarker ==
    [][(pc = "saved" /\ pc' = "loaded" /\ NoEmptyBlock(tree))
          => KeyKinds(tree') = KeyKinds(tree)]_vars

\* what delete('key.sk') has to leave for a key holding v: the array
\* without element sk, the object without property sk
WithoutSub(v, sk) ==
    IF v.t = "arr" THEN [v EXCEPT !.e = RemoveAt(@, digitsValue(sk))]
    ELSE Obj(SelectSeq(v.p, LAMBDA e : e.k # sk))

\* C26: delete of a sub-key.  delete('key.i') on an array of length n with
\* 0 <= i < n leaves the array of length n-1 without element i, the
\* elements after i shifted down by one; delete('key.sub') on an object
\* removes only that property; on a key holding neither it returns a
\* failure value and changes nothing.  In all cases the key stays in its
\* section and the index, the section count and order are unchanged.
C26_DeleteSubkey ==
    \A key \in DOMAIN index, sk \in {<<"0">>, <<"1">>, <<"x">>}, removeComment \in BOOLEAN :
        LET v == Stored(key)
            r == delete(tree, index, key \o <<".">> \o sk, removeComment)
        IN /\ r.index = index
           /\ IF v.t = "obj" \/ (v.t = "arr" /\ IsArrayIndex(sk) /\ digitsValue(sk) < Len(v.e))
              THEN /\ r.ret = Bool(TRUE)
                   /\ r.tree = [tree EXCEPT ![index[key] + 1].data =
                                    [j \in 1..Len(@) |->
                                        IF @[j].k = key
                                        THEN [k |-> key, v |-> WithoutSub(v, sk)]
                                        ELSE @[j]]]
              ELSE v.t # "arr" => (IsFailure(r.ret) /\ r.tree = tree)

\* C26's case: key a holds an array of two different elements and delete
\* of 'a.1' leaves the first, of 'a.0' the second
C26_Witness ==
    /\ KA \in DOMAIN index
    /\ Stored(KA).t = "arr" /\ Len(Stored(KA).e) = 2
    /\ Stored(KA).e[1] # Stored(KA).e[2]
    /\ LET r == delete(tree, index, KA \o <<".", "1">>, FALSE)
       IN GetProp(r.tree[index[KA] + 1].data, KA).e = <<Stored(KA).e[1]>>
    /\ LET r == delete(tree, index, KA \o <<".", "0">>, FALSE)
       IN GetProp(r.tree[index[KA] + 1].data, KA).e = <<Stored(KA).e[2]>>

\* a line that opens a multi-line string
IsOpener(line) == \E k \in Keys : line = k \o <<":", " ">> \o TripleQuote

\* a line that opens an object block; by itself it contributes nothing
IsObjectOpener(line) == \E k \in Keys : line = k \o <<":", " ", "{">>

RECURSIVE CountBlocks(_, _, _, _)
\* the number of maximal blocks of lines, delimited by blank lines outside an
\* open multi-line string, that contributed a comment line or a key; open
\* tells whether a multi-line string is open before line i and some whether
\* the block so far has contributed
CountBlocks(lines, i, open, some) ==
    IF i > Len(lines) THEN (IF some THEN 1 ELSE 0)
    ELSE IF trim(lines[i]) = <<>>
    THEN IF open THEN CountBlocks(lines, i + 1, TRUE, some)
         ELSE (IF some THEN 1 ELSE 0) + CountBlocks(lines, i + 1, FALSE, FALSE)
    ELSE IF IsOpener(lines[i]) THEN CountBlocks(lines, i + 1, TRUE, some)
    ELSE IF open
    THEN IF trim(lines[i]) = TripleQuote
         THEN CountBlocks(lines, i + 1, FALSE, TRUE)
         ELSE CountBlocks(lines, i + 1, TRUE, some)
    ELSE IF IsObjectOpener(lines[i]) THEN CountBlocks(lines, i + 1, FALSE, some)
    ELSE CountBlocks(lines, i + 1, FALSE, TRUE)

\* C27: parser section segmentation.  Outside an open multi-line string a
\* blank line ends the current section only if it has content, and a run
\* of blank lines produces no additional section; inside an open multi-line
\* string a blank line ends nothing; at the end of the input the section in
\* progress is committed if it is not empty.  Hence the number of sections
\* read from a text equals the number of blank-line-delimited blocks that
\* contributed a comment line or a key, and none of the sections is empty.
C27_Segmentation ==
    pc = "loaded" =>
        /\ Len(tree) = CountBlocks(split(file.text, "\n"), 1, FALSE, FALSE)
        /\ \A i \in 1..Len(tree) :
              tree[i].comment # Str(<<>>) \/ Len(tree[i].data) > 0

\* C27's case: a comment, two blank lines and an option were read as two
\* sections
C27_Witness ==
    /\ pc = "loaded"
    /\ file.text = <<"#", " ", "c", "\n", "\n", "\n", "b", ":", " ", "2">>
    /\ Len(tree) = 2
    /\ tree[1].data = <<>>
    /\ ObjectKeys(tree[2].data) = <<KB>>

\* C28: parser index consistency.  For every input text, texts in which a
\* key name occurs more than once included, the tree and the index the
\* parser produced satisfy index[k] = i for every key k of tree[i].data.
C28_ParserIndex ==
    pc = "loaded" =>
        \A i \in 1..Len(tree) : \A j \in 1..Len(tree[i].data) :
            LET k == tree[i].data[j].k
            IN k \in DOMAIN index /\ index[k] = i - 1

\* C29: logical violations on dotted paths are reported as values, never
\* raised: for every reachable state and every existing key, whatever the
\* shape of its value, get('key.sub', d), set('key.sub', primitive) and
\* delete('key.sub') return a value or a failure value and do not raise,
\* and when a failure value is returned the state is unchanged.
C29_NeverRaised ==
    \A key \in DOMAIN index, sk \in {<<"x">>, <<"0">>} :
        LET path == key \o <<".">> \o sk
            s == set(tree, index, path, Integer(1), [create |-> FALSE, comment |-> Undefined])
            d == delete(tree, index, path, FALSE)
        IN /\ ~IsThrow(get(tree, index, path, Dflt))
           /\ ~IsThrow(s.ret)
           /\ (IsFailure(s.ret) => (s.tree = tree /\ s.index = index))
           /\ ~IsThrow(d.ret)
           /\ (IsFailure(d.ret) => (d.tree = tree /\ d.index = index))

\* C30: key uniqueness.  In every state reachable from the empty store by
\* public operations each top-level key name occurs in the data of at most
\* one section, so getKeys() has no duplicates and equals, as a set, the
\* domain of the index.
C30_KeysUnique ==
    /\ \A i, n \in 1..Len(tree) : \A k \in TreeKeys(tree) :
          (HasProp(tree[i].data, k) /\ HasProp(tree[n].data, k)) => i = n
    /\ Distinct(getKeys(tree))
    /\ SeqToSet(getKeys(tree)) = DOMAIN index

\* C31: parser totality.  For every input text, texts with an unterminated
\* block, a blank line inside a block, or an object body line that is not
\* of the form 'subkey (:|=) value' included, parsing yields a tree and an
\* index without raising.
C31_ParserTotal == file.exists => ~IsThrow(parse(file.text).ret)

\* the text written by saving what was loaded from the text s under the
\* configuration o
SavedAgain(s, o) == serialize(parse(s).tree, o)

\* the text s1 written by a first save is what a second load and save write
IsFixedPoint(s1, o) ==
    \/ IsThrow(s1)
    \/ /\ ~IsThrow(parse(s1.s).ret)
       /\ SavedAgain(s1.s, o) = s1

\* C32: load/save is a normalisation.  For every input text the parser
\* accepts, the text written by saving the loaded store is a fixed point:
\* loading it and saving it again under the same configuration writes the
\* same text.
C32_Normalisation ==
    (file.exists /\ ~IsThrow(parse(file.text).ret))
        => IsFixedPoint(SavedAgain(file.text, opts), opts)

\* C33: the asynchronous save writes a snapshot.  A call of save() that
\* serializes without error puts the text of the store as it is at the call
\* among the writes under way, every write that completes leaves in the file
\* exactly a text put there by such a call, whatever the store has become,
\* no operation on the store changes a text whose write is under way, and a
\* call of save() whose serialization raises starts no write and leaves the
\* file alone.
C33_Snapshot ==
    [][/\ file' # file =>
            \/ /\ ~IsThrow(serialize(tree, opts))
               /\ file' = [file EXCEPT !.pending = Append(@, serialize(tree, opts).s)]
               /\ pc' = "saving"
            \/ \E i \in 1..Len(file.pending) :
                  file' = [exists |-> TRUE, text |-> file.pending[i],
                           pending |-> RemoveAt(file.pending, i - 1)]
       /\ <<tree, index>>' # <<tree, index>> => file' = file
       /\ pc' = "threw" => file' = file]_vars

\* a write has completed after the store was changed: the file holds a text
\* that is not the serialization of the store
C33_Witness ==
    /\ pc = "written"
    /\ file.exists
    /\ ~IsThrow(serialize(tree, opts))
    /\ file.text # serialize(tree, opts).s

\* the index ix is consistent with the tree t
ConsistentWith(t, ix) ==
    /\ \A i \in 1..Len(t) : \A j \in 1..Len(t[i].data) :
          /\ t[i].data[j].k \in DOMAIN ix
          /\ ix[t[i].data[j].k] = i - 1
    /\ \A k \in DOMAIN ix : k \in TreeKeys(t)

\* the operation of one store that left r has left the other store alone
Untouched(other, r) ==
    /\ sharedAfter(other, r).tree = other.tree
    /\ ConsistentWith(sharedAfter(other, r).tree, sharedAfter(other, r).index)

\* every later set and delete of the store own leaves the store other alone
LaterLeaves(own, other) ==
    /\ \A key \in Keys, o \in SetOpts :
          Untouched(other, set(own.tree, own.index, key, Integer(1), o))
    /\ \A key \in Keys, removeComment \in BOOLEAN :
          Untouched(other, delete(own.tree, own.index, key, removeComment))

\* the two stores after an upgrade stay independent
Independent(current, target) ==
    IsThrow(current.ret) \/ (LaterLeaves(current, target) /\ LaterLeaves(target, current))

\* C34: stores stay independent after upgrade.  After current.upgrade(target)
\* with a second store as target, a later set or delete on the current store
\* leaves the target's tree unchanged and the target's index consistent with
\* its tree, and a later set or delete on the target does the same for the
\* current store.
C34_Independent ==
    \A newComfig \in NewComfigs :
        Independent(upgrade(tree, index, newComfig), upgradeTarget(tree, newComfig))

=============================================================================
